---- MODULE Spec2Model ----
(***************************************************************************)
(* A model of the ds18b20 driver (src/src/lib.rs, src/src/resolution.rs).  *)
(*                                                                         *)
(* The driver is a set of async functions over one mutably borrowed        *)
(* one-wire bus.  The model runs one driver call at a time: `op` is the    *)
(* call in progress with its arguments, `pc` its position, `log` the bus   *)
(* primitives (and timer delays) it has performed so far, `result` what it *)
(* returned.  The bus is the environment: every primitive may succeed or   *)
(* report an error, read_bytes delivers any scratchpad image, read_bit any *)
(* bit.                                                                    *)
(*                                                                         *)
(* Three specifications share the driver's actions:                        *)
(*   Spec        the driver against an arbitrary bus;                      *)
(*   DeviceSpec  the driver against one sensor that stores what is written *)
(*               to it and answers with what it holds;                     *)
(*   TasksSpec   several tasks calling the driver on the same bus.         *)
(***************************************************************************)
EXTENDS Integers, Sequences, FiniteSets, TLC

VARIABLES
    READ_SLOT_DURATION_MICROS, \* one_wire_bus::READ_SLOT_DURATION_MICROS of the build
    handle,      \* the Ds18b20 constructed last: <<>> or <<its address>>
    op,          \* the driver call in progress (or returned last)
    pc,          \* its position
    log,         \* the bus primitives and delays of that call, in order
    result,      \* its return value
    scratchpad,  \* the local buffer of read_scratchpad
    polls,       \* iterations of the recall loop completed so far
    device,      \* the sensor on the bus: its scratchpad, EEPROM, conversion
    borrow,      \* the `&mut OneWire` borrow: <<the task whose call has it, held>>
    wire,        \* the tasks whose primitives the bus has seen since it was borrowed
    sched        \* <<the task that runs, the call state of the task that waits>>

vars == <<READ_SLOT_DURATION_MICROS, handle, op, pc, log, result, scratchpad, polls,
          device, borrow, wire, sched>>

-----------------------------------------------------------------------------
(* Values: SensorData, results, log entries, calls.                         *)

\* struct SensorData; temperature is in sixteenths of a degree Celsius
SensorData(t, r, l, h) ==
    [temperature |-> t, resolution |-> r, alarm_temp_low |-> l, alarm_temp_high |-> h]

\* OneWireResult values.  bytes: a returned byte array or address;
\* data: <<>> or <<the SensorData returned>>
NoResult == [tag |-> "None", err |-> "", bytes |-> <<>>, data |-> <<>>]
Ok(b, d) == [tag |-> "Ok", err |-> "", bytes |-> b, data |-> d]
Err(e) == [tag |-> "Err", err |-> e, bytes |-> <<>>, data |-> <<>>]

\* one bus primitive or timer delay performed: res is "ok" or the error
Entry(p, a, r) == [prim |-> p, arg |-> a, res |-> r]

\* a driver call: the public entry point, the free function that runs it,
\* its Option<&Address> (<<>> is None), the command byte it sends, and the
\* arguments of set_config (alarm_temp_low, alarm_temp_high, resolution)
Call(n, f, a, c, l, h, r) ==
    [name |-> n, fn |-> f, address |-> a, command |-> c,
     low |-> l, high |-> h, bits |-> r]

NoCall == Call("", "", <<>>, 0, 0, 0, "Bits12")

-----------------------------------------------------------------------------
(* Bytes and bit operations (u8 arithmetic of the source).                  *)

\* bit i of byte a
Bit(a, i) == (a \div (2 ^ i)) % 2

\* a ^ b on u8
Xor(a, b) ==
      (IF Bit(a, 0) # Bit(b, 0) THEN 1 ELSE 0)
    + (IF Bit(a, 1) # Bit(b, 1) THEN 2 ELSE 0)
    + (IF Bit(a, 2) # Bit(b, 2) THEN 4 ELSE 0)
    + (IF Bit(a, 3) # Bit(b, 3) THEN 8 ELSE 0)
    + (IF Bit(a, 4) # Bit(b, 4) THEN 16 ELSE 0)
    + (IF Bit(a, 5) # Bit(b, 5) THEN 32 ELSE 0)
    + (IF Bit(a, 6) # Bit(b, 6) THEN 64 ELSE 0)
    + (IF Bit(a, 7) # Bit(b, 7) THEN 128 ELSE 0)

\* i8 -> u8, as alarm_temp.to_ne_bytes()[0]
i8_to_byte(x) == (x + 256) % 256

\* u8 -> i8, as i8::from_le_bytes([b])
i8_from_le_bytes(b) == IF b >= 128 THEN b - 256 ELSE b

\* u16::from_le_bytes([lo, hi])
u16_from_le_bytes(lo, hi) == lo + 256 * hi

-----------------------------------------------------------------------------
(* Program constants.                                                       *)

FAMILY_CODE == 40

CONVERT_TEMP == 68
WRITE_SCRATCHPAD == 78
READ_SCRATCHPAD == 190
COPY_SCRATCHPAD == 72
RECALL_EEPROM == 184

-----------------------------------------------------------------------------
(* Resolution (src/src/resolution.rs).                                      *)

Resolutions == {"Bits9", "Bits10", "Bits11", "Bits12"}

\* Option<Resolution>: <<>> is None, <<r>> is Some(r)
None == <<>>
Some(x) == <<x>>

to_config_register_typo(r) ==
    CASE r = "Bits9"  -> 31
      [] r = "Bits10" -> 95
      [] r = "Bits11" -> 95
      [] r = "Bits12" -> 127

to_config_register(r) ==
    CASE r = "Bits9"  -> 31
      [] r = "Bits10" -> 63
      [] r = "Bits11" -> 95
      [] r = "Bits12" -> 127

from_config_register_default(config) ==
    CASE config = 31  -> Some("Bits9")
      [] config = 63  -> Some("Bits10")
      [] config = 95  -> Some("Bits11")
      [] OTHER        -> Some("Bits12")

from_config_register_masked(config) ==
    CASE config \div 32 = 0 -> Some("Bits9")
      [] config \div 32 = 1 -> Some("Bits10")
      [] config \div 32 = 2 -> Some("Bits11")
      [] config \div 32 = 3 -> Some("Bits12")
      [] OTHER               -> None

from_config_register(config) ==
    CASE config = 31  -> Some("Bits9")
      [] config = 63  -> Some("Bits10")
      [] config = 95  -> Some("Bits11")
      [] config = 127 -> Some("Bits12")
      [] OTHER        -> None

max_measurement_time_millis_swapped(r) ==
    CASE r = "Bits9"  -> 94
      [] r = "Bits10" -> 375
      [] r = "Bits11" -> 188
      [] r = "Bits12" -> 750

max_measurement_time_millis(r) ==
    CASE r = "Bits9"  -> 94
      [] r = "Bits10" -> 188
      [] r = "Bits11" -> 375
      [] r = "Bits12" -> 750

-----------------------------------------------------------------------------
(* The bus collaborator (crate one_wire_bus): CRC-8 and addresses.          *)

\* one bit of the Dallas/Maxim CRC-8 (polynomial x^8+x^5+x^4+1, reflected)
crc8_shift(crc) == IF crc % 2 = 1 THEN Xor(crc \div 2, 140) ELSE crc \div 2

\* the crate's 256-entry lookup table: eight shifts of the index
crc8_table ==
    [c \in 0 .. 255 |->
        crc8_shift(crc8_shift(crc8_shift(crc8_shift(
        crc8_shift(crc8_shift(crc8_shift(crc8_shift(c))))))))]

RECURSIVE crc8_from(_, _, _)
crc8_from(data, k, crc) ==
    IF k > Len(data) THEN crc
    ELSE crc8_from(data, k + 1, crc8_table[Xor(crc, data[k])])

crc8(data) == crc8_from(data, 1, 0)

\* check_crc8: Ok exactly when the CRC over the whole buffer is 0
check_crc8(data) == crc8(data) = 0

\* Address::family_code: the low byte of the 64-bit address
family_code(address) == address[1]

-----------------------------------------------------------------------------
(* Inputs of the model.                                                     *)

\* addresses handed to Ds18b20::new and to read_scratchpad
Addresses ==
    { <<40, 1, 2, 3, 4, 5, 6, 7>>,
      <<40, 255, 255, 255, 255, 255, 255, 16>>,
      <<16, 40, 40, 40, 40, 40, 40, 40>>,
      <<34, 0, 0, 0, 0, 0, 0, 40>> }

\* read-slot durations (microseconds) a build of the bus crate may define
SlotDurations == {70, 3000, 5000}

\* errors the bus primitives report
BusErrors == {"PinError", "UnexpectedResponse"}

\* raw temperatures (bytes 0-1 as a 16-bit value) the device may hold
RawTemps == {0, 1360, 2000, 32768, 65374}

\* alarm bytes <<high, low>> (bytes 2-3) the device may hold
AlarmBytes == {<<75, 198>>, <<198, 75>>}

\* config bytes (byte 4) the device may hold: the four encodings, and bytes
\* that differ from them in the low 5 bits, in bit 7, or in every bit
ConfigBytes == {31, 63, 95, 127, 0, 30, 32, 64, 96, 126, 159, 255}

\* what the bus may do to the CRC byte it delivers (0: deliver it intact)
CrcDamage == {0, 1, 255}

\* alarm thresholds and resolutions handed to set_config
AlarmTemps == {-128, -58, 0, 75, 127}

ScratchpadBody(raw, alarms, config) ==
    <<raw % 256, raw \div 256, alarms[1], alarms[2], config, 255, 12, 16>>

\* the 9 bytes the bus delivers for a device image and a damage pattern
ScratchpadImage(raw, alarms, config, damage) ==
    LET body == ScratchpadBody(raw, alarms, config)
    IN  Append(body, Xor(crc8(body), damage))

-----------------------------------------------------------------------------
(* The surroundings of the driver when they are not modelled.               *)

\* no sensor is modelled: the bus answers anything
NoDevice == <<>>

\* no call has borrowed the bus
NoBorrow == <<0, FALSE>>

\* the call state of a task that is not in a call
IdleContext == <<NoCall, "idle", <<>>, NoResult, <<0, 0, 0, 0, 0, 0, 0, 0, 0>>, 0>>

\* one task runs, the other waits outside any call
NoSched == <<1, IdleContext>>

\* the driver alone: the sensor and the tasks play no part
Alone == UNCHANGED <<device, borrow, wire, sched>>

-----------------------------------------------------------------------------
(* One sensor on the bus.  device = <<scratchpad bytes 2-4 (TH, TL, config), *)
(* EEPROM copy of these, conversion in progress, protocol phase, the          *)
(* configuration a completed set_config gave it and nothing has replaced>>.   *)

\* the sensor's ROM address
DeviceAddress == <<40, 1, 2, 3, 4, 5, 6, 7>>

\* TH, TL and config as the sensor leaves the factory: 75, -58, 12 bits
FactorySettings == <<75, 198, 127>>

\* the sensor after power-on: the scratchpad is loaded from the EEPROM
PoweredOn == <<FactorySettings, FactorySettings, FALSE, "idle", None>>

\* the sensor after one bus primitive.  After a reset it listens for its
\* address (or skip), then for one command; the three bytes after
\* write-scratchpad go to TH, TL and config; copy-scratchpad stores them in
\* the EEPROM and recall loads them back.  A primitive the bus reports as
\* failed ends the transaction and leaves the memories alone.
React(d, e) ==
    LET phase == d[4]
        byte == e.arg[1]
    IN  IF e.res # "ok" THEN [d EXCEPT ![4] = "idle"]
        ELSE CASE e.prim = "reset" -> [d EXCEPT ![4] = "rom"]
               [] e.prim = "match_address" /\ phase = "rom" ->
                    [d EXCEPT ![4] = IF e.arg = DeviceAddress THEN "function" ELSE "idle"]
               [] e.prim = "skip_address" /\ phase = "rom" ->
                    [d EXCEPT ![4] = "function"]
               [] e.prim = "write_byte" /\ phase = "function" ->
                    CASE byte = CONVERT_TEMP     -> [d EXCEPT ![3] = TRUE, ![4] = "idle"]
                      [] byte = WRITE_SCRATCHPAD -> [d EXCEPT ![4] = "write_th"]
                      [] byte = READ_SCRATCHPAD  -> [d EXCEPT ![4] = "read"]
                      [] byte = COPY_SCRATCHPAD  -> [d EXCEPT ![2] = d[1], ![4] = "idle"]
                      [] byte = RECALL_EEPROM    -> [d EXCEPT ![1] = d[2], ![4] = "idle"]
                      [] OTHER                   -> [d EXCEPT ![4] = "idle"]
               [] e.prim = "write_byte" /\ phase = "write_th" ->
                    [d EXCEPT ![1][1] = byte, ![4] = "write_tl"]
               [] e.prim = "write_byte" /\ phase = "write_tl" ->
                    [d EXCEPT ![1][2] = byte, ![4] = "write_config"]
               [] e.prim = "write_byte" /\ phase = "write_config" ->
                    [d EXCEPT ![1][3] = byte, ![4] = "idle"]
               [] e.prim = "read_bytes" -> [d EXCEPT ![4] = "idle"]
               [] OTHER -> d

\* a driver step as the sensor sees it: it reacts to the primitive the step
\* performed, if any.  The last component records the arguments of a
\* set_config whose third byte the sensor has just stored, until its
\* scratchpad is changed by anything else.
SensorReacts ==
    device' =
        IF Len(log') # Len(log) + 1 THEN device
        ELSE LET d == React(device, log'[Len(log')])
             IN  IF /\ op.fn = "set_config"
                    /\ device[4] = "write_config"
                    /\ d[4] = "idle"
                    /\ result'.tag = "Ok"
                 THEN [d EXCEPT ![5] = Some(<<op.low, op.high, op.bits>>)]
                 ELSE IF d[1] # device[1] THEN [d EXCEPT ![5] = None]
                 ELSE d

\* one task only: nothing competes for the bus
Sensor == SensorReacts /\ UNCHANGED <<borrow, wire, sched>>

\* the 9-byte images read_bytes may deliver: anything when no sensor is
\* modelled; what the sensor holds (with any temperature, and any damage to
\* the CRC on the way) when it was told to send its scratchpad; all ones
\* when it was not, since nothing then pulls the line low
BusImages ==
    IF device = NoDevice
    THEN { ScratchpadImage(raw, alarms, config, damage) :
             raw \in RawTemps, alarms \in AlarmBytes,
             config \in ConfigBytes, damage \in CrcDamage }
    ELSE IF device[4] = "read"
    THEN { ScratchpadImage(raw, <<device[1][1], device[1][2]>>, device[1][3], damage) :
             raw \in RawTemps, damage \in CrcDamage }
    ELSE { <<255, 255, 255, 255, 255, 255, 255, 255, 255>> }

-----------------------------------------------------------------------------
(* Entering a function, and the `?` operator.                               *)

ZeroScratchpad == <<0, 0, 0, 0, 0, 0, 0, 0, 0>>

\* entering a function that talks to the bus
Enter(call, first) ==
    /\ pc = "idle"
    /\ op' = call
    /\ pc' = first
    /\ log' = <<>>
    /\ result' = NoResult
    /\ scratchpad' = ZeroScratchpad
    /\ polls' = 0
    /\ UNCHANGED <<READ_SLOT_DURATION_MICROS, handle>>

BusPrimitive_error_ignored(prim, arg, okPc, okResult) ==
    \E res \in {"ok"} \cup BusErrors :
        /\ log' = Append(log, Entry(prim, arg, res))
        /\ pc' = okPc
        /\ result' = okResult

\* `primitive(...)?`: the primitive is performed; on an error the function
\* returns that error at once, otherwise it goes on at okPc
BusPrimitive(prim, arg, okPc, okResult) ==
    \E res \in {"ok"} \cup BusErrors :
        /\ log' = Append(log, Entry(prim, arg, res))
        /\ IF res = "ok"
           THEN pc' = okPc /\ result' = okResult
           ELSE pc' = "done" /\ result' = Err(res)

-----------------------------------------------------------------------------
(* Ds18b20 (src/src/lib.rs).                                                *)

Init ==
    /\ READ_SLOT_DURATION_MICROS \in SlotDurations
    /\ handle = <<>>
    /\ op = NoCall
    /\ pc = "idle"
    /\ log = <<>>
    /\ result = NoResult
    /\ scratchpad = ZeroScratchpad
    /\ polls = 0
    /\ device = NoDevice
    /\ borrow = NoBorrow
    /\ wire = <<>>
    /\ sched = NoSched

new_unchecked(address) ==
    /\ pc = "idle"
    /\ op' = Call("new", "new", Some(address), 0, 0, 0, "Bits12")
    /\ handle' = Some(address)
    /\ result' = Ok(address, <<>>)
    /\ pc' = "done"
    /\ log' = <<>>
    /\ UNCHANGED <<READ_SLOT_DURATION_MICROS, scratchpad, polls>>

new(address) ==
    /\ pc = "idle"
    /\ op' = Call("new", "new", Some(address), 0, 0, 0, "Bits12")
    /\ IF family_code(address) = FAMILY_CODE
       THEN handle' = Some(address) /\ result' = Ok(address, <<>>)
       ELSE handle' = handle /\ result' = Err("FamilyCodeMismatch")
    /\ pc' = "done"
    /\ log' = <<>>
    /\ UNCHANGED <<READ_SLOT_DURATION_MICROS, scratchpad, polls>>

Ds18b20_start_temp_measurement ==
    /\ handle # <<>>
    /\ Enter(Call("Ds18b20::start_temp_measurement", "start_temp_measurement",
                  Some(handle[1]), CONVERT_TEMP, 0, 0, "Bits12"),
             "send_command")

Ds18b20_read_data ==
    /\ handle # <<>>
    /\ Enter(Call("Ds18b20::read_data", "read_data",
                  Some(handle[1]), READ_SCRATCHPAD, 0, 0, "Bits12"),
             "reset")

Ds18b20_set_config_persisting(alarm_temp_low, alarm_temp_high, resolution) ==
    /\ handle # <<>>
    /\ Enter(Call("Ds18b20::set_config", "set_config",
                  Some(handle[1]), COPY_SCRATCHPAD,
                  alarm_temp_low, alarm_temp_high, resolution),
             "send_command")

Ds18b20_set_config(alarm_temp_low, alarm_temp_high, resolution) ==
    /\ handle # <<>>
    /\ Enter(Call("Ds18b20::set_config", "set_config",
                  Some(handle[1]), WRITE_SCRATCHPAD,
                  alarm_temp_low, alarm_temp_high, resolution),
             "send_command")

Ds18b20_save_to_eeprom_broadcast ==
    /\ handle # <<>>
    /\ Enter(Call("Ds18b20::save_to_eeprom", "save_to_eeprom",
                  None, COPY_SCRATCHPAD, 0, 0, "Bits12"),
             "send_command")

Ds18b20_save_to_eeprom ==
    /\ handle # <<>>
    /\ Enter(Call("Ds18b20::save_to_eeprom", "save_to_eeprom",
                  Some(handle[1]), COPY_SCRATCHPAD, 0, 0, "Bits12"),
             "send_command")

Ds18b20_recall_from_eeprom ==
    /\ handle # <<>>
    /\ Enter(Call("Ds18b20::recall_from_eeprom", "recall_from_eeprom",
                  Some(handle[1]), RECALL_EEPROM, 0, 0, "Bits12"),
             "send_command")

start_simultaneous_temp_measurement ==
    Enter(Call("start_simultaneous_temp_measurement",
               "start_simultaneous_temp_measurement",
               None, CONVERT_TEMP, 0, 0, "Bits12"),
          "reset")

simultaneous_recall_from_eeprom ==
    Enter(Call("simultaneous_recall_from_eeprom", "recall_from_eeprom",
               None, RECALL_EEPROM, 0, 0, "Bits12"),
          "send_command")

simultaneous_save_to_eeprom ==
    Enter(Call("simultaneous_save_to_eeprom", "save_to_eeprom",
               None, COPY_SCRATCHPAD, 0, 0, "Bits12"),
          "send_command")

read_scratchpad(address) ==
    Enter(Call("read_scratchpad", "read_scratchpad",
               Some(address), READ_SCRATCHPAD, 0, 0, "Bits12"),
          "reset")

\* Resolution::delay_for_measurement_time: one Timer::after_millis, no bus
delay_for_measurement_time(r) ==
    /\ pc = "idle"
    /\ op' = Call("Resolution::delay_for_measurement_time",
                  "delay_for_measurement_time", None, 0, 0, 0, r)
    /\ log' = <<Entry("delay", <<max_measurement_time_millis(r)>>, "ok")>>
    /\ result' = Ok(<<>>, <<>>)
    /\ pc' = "done"
    /\ UNCHANGED <<READ_SLOT_DURATION_MICROS, handle, scratchpad, polls>>

-----------------------------------------------------------------------------
(* OneWire::send_command(command, address): reset, match or skip address,   *)
(* write the command byte.                                                  *)

send_command_reset ==
    /\ pc = "send_command"
    /\ BusPrimitive("reset", <<>>, "send_command_address", result)
    /\ UNCHANGED <<READ_SLOT_DURATION_MICROS, handle, op, scratchpad, polls>>

send_command_address ==
    /\ pc = "send_command_address"
    /\ IF op.address = None
       THEN BusPrimitive("skip_address", <<>>, "send_command_write", result)
       ELSE BusPrimitive("match_address", op.address[1], "send_command_write", result)
    /\ UNCHANGED <<READ_SLOT_DURATION_MICROS, handle, op, scratchpad, polls>>

send_command_write ==
    /\ pc = "send_command_write"
    /\ BusPrimitive("write_byte", <<op.command>>, "sent", result)
    /\ UNCHANGED <<READ_SLOT_DURATION_MICROS, handle, op, scratchpad, polls>>

-----------------------------------------------------------------------------
(* The bodies of the functions, after their first call.                     *)

start_temp_measurement_return_waiting ==
    /\ op.fn = "start_temp_measurement"
    /\ pc = "sent"
    /\ pc' = "done"
    /\ log' = Append(log, Entry("delay", <<750>>, "ok"))
    /\ result' = Ok(<<>>, <<>>)
    /\ UNCHANGED <<READ_SLOT_DURATION_MICROS, handle, op, scratchpad, polls>>

\* start_temp_measurement: Ok(()) once send_command has returned
start_temp_measurement_return ==
    /\ op.fn = "start_temp_measurement"
    /\ pc = "sent"
    /\ pc' = "done"
    /\ result' = Ok(<<>>, <<>>)
    /\ UNCHANGED <<READ_SLOT_DURATION_MICROS, handle, op, log, scratchpad, polls>>

set_config_write_high_swapped ==
    /\ op.fn = "set_config"
    /\ pc = "sent"
    /\ BusPrimitive("write_byte", <<i8_to_byte(op.low)>>, "write_low", result)
    /\ UNCHANGED <<READ_SLOT_DURATION_MICROS, handle, op, scratchpad, polls>>

set_config_write_high ==
    /\ op.fn = "set_config"
    /\ pc = "sent"
    /\ BusPrimitive("write_byte", <<i8_to_byte(op.high)>>, "write_low", result)
    /\ UNCHANGED <<READ_SLOT_DURATION_MICROS, handle, op, scratchpad, polls>>

set_config_write_low ==
    /\ op.fn = "set_config"
    /\ pc = "write_low"
    /\ BusPrimitive("write_byte", <<i8_to_byte(op.low)>>, "write_resolution", result)
    /\ UNCHANGED <<READ_SLOT_DURATION_MICROS, handle, op, scratchpad, polls>>

set_config_write_resolution ==
    /\ op.fn = "set_config"
    /\ pc = "write_resolution"
    /\ BusPrimitive("write_byte", <<to_config_register(op.bits)>>, "done", Ok(<<>>, <<>>))
    /\ UNCHANGED <<READ_SLOT_DURATION_MICROS, handle, op, scratchpad, polls>>

\* start_simultaneous_temp_measurement: reset, skip_address, write_byte
start_simultaneous_reset ==
    /\ op.fn = "start_simultaneous_temp_measurement"
    /\ pc = "reset"
    /\ BusPrimitive("reset", <<>>, "skip_address", result)
    /\ UNCHANGED <<READ_SLOT_DURATION_MICROS, handle, op, scratchpad, polls>>

start_simultaneous_skip_address ==
    /\ op.fn = "start_simultaneous_temp_measurement"
    /\ pc = "skip_address"
    /\ BusPrimitive("skip_address", <<>>, "write_byte", result)
    /\ UNCHANGED <<READ_SLOT_DURATION_MICROS, handle, op, scratchpad, polls>>

start_simultaneous_write_byte ==
    /\ op.fn = "start_simultaneous_temp_measurement"
    /\ pc = "write_byte"
    /\ BusPrimitive("write_byte", <<CONVERT_TEMP>>, "done", Ok(<<>>, <<>>))
    /\ UNCHANGED <<READ_SLOT_DURATION_MICROS, handle, op, scratchpad, polls>>

-----------------------------------------------------------------------------
(* read_scratchpad and read_data.                                           *)

read_scratchpad_reset ==
    /\ op.fn \in {"read_scratchpad", "read_data"}
    /\ pc = "reset"
    /\ BusPrimitive("reset", <<>>, "match_address", result)
    /\ UNCHANGED <<READ_SLOT_DURATION_MICROS, handle, op, scratchpad, polls>>

read_scratchpad_match_address_skipped ==
    /\ op.fn \in {"read_scratchpad", "read_data"}
    /\ pc = "match_address"
    /\ BusPrimitive("skip_address", <<>>, "write_byte", result)
    /\ UNCHANGED <<READ_SLOT_DURATION_MICROS, handle, op, scratchpad, polls>>

read_scratchpad_match_address ==
    /\ op.fn \in {"read_scratchpad", "read_data"}
    /\ pc = "match_address"
    /\ BusPrimitive("match_address", op.address[1], "write_byte", result)
    /\ UNCHANGED <<READ_SLOT_DURATION_MICROS, handle, op, scratchpad, polls>>

read_scratchpad_write_byte ==
    /\ op.fn \in {"read_scratchpad", "read_data"}
    /\ pc = "write_byte"
    /\ BusPrimitive("write_byte", <<READ_SCRATCHPAD>>, "read_bytes", result)
    /\ UNCHANGED <<READ_SLOT_DURATION_MICROS, handle, op, scratchpad, polls>>

\* read_bytes(&mut scratchpad)?: the bus fills the 9-byte buffer with an
\* image, or reports an error (the buffer is then dropped with the frame)
read_scratchpad_read_bytes ==
    /\ op.fn \in {"read_scratchpad", "read_data"}
    /\ pc = "read_bytes"
    /\ \/ \E image \in BusImages :
            /\ scratchpad' = image
            /\ log' = Append(log, Entry("read_bytes", image, "ok"))
            /\ pc' = "check_crc8"
            /\ result' = result
       \/ \E e \in BusErrors :
            /\ scratchpad' = scratchpad
            /\ log' = Append(log, Entry("read_bytes", <<>>, e))
            /\ pc' = "done"
            /\ result' = Err(e)
    /\ UNCHANGED <<READ_SLOT_DURATION_MICROS, handle, op, polls>>

read_scratchpad_check_crc8_skipped ==
    /\ op.fn \in {"read_scratchpad", "read_data"}
    /\ pc = "check_crc8"
    /\ IF op.fn = "read_scratchpad"
       THEN pc' = "done" /\ result' = Ok(scratchpad, <<>>)
       ELSE pc' = "decode" /\ result' = result
    /\ UNCHANGED <<READ_SLOT_DURATION_MICROS, handle, op, log, scratchpad, polls>>

\* check_crc8(&scratchpad)?; Ok(scratchpad)
read_scratchpad_check_crc8 ==
    /\ op.fn \in {"read_scratchpad", "read_data"}
    /\ pc = "check_crc8"
    /\ IF ~check_crc8(scratchpad)
       THEN pc' = "done" /\ result' = Err("CrcMismatch")
       ELSE IF op.fn = "read_scratchpad"
       THEN pc' = "done" /\ result' = Ok(scratchpad, <<>>)
       ELSE pc' = "decode" /\ result' = result
    /\ UNCHANGED <<READ_SLOT_DURATION_MICROS, handle, op, log, scratchpad, polls>>

\* (n as f32) / d for a u16 n and d in {2, 4, 8, 16}: exact in f32, and
\* represented by the integer number of sixteenths of a degree
f32_div(n, d) == n * (16 \div d)

decode_temperature_swapped(raw_temp, resolution) ==
    CASE resolution = "Bits12" -> f32_div(raw_temp, 16)
      [] resolution = "Bits11" -> f32_div(raw_temp, 4)
      [] resolution = "Bits10" -> f32_div(raw_temp, 8)
      [] resolution = "Bits9"  -> f32_div(raw_temp, 2)

\* the match on the resolution in read_data
decode_temperature(raw_temp, resolution) ==
    CASE resolution = "Bits12" -> f32_div(raw_temp, 16)
      [] resolution = "Bits11" -> f32_div(raw_temp, 8)
      [] resolution = "Bits10" -> f32_div(raw_temp, 4)
      [] resolution = "Bits9"  -> f32_div(raw_temp, 2)

read_data_decode_alarms_swapped ==
    /\ op.fn = "read_data"
    /\ pc = "decode"
    /\ pc' = "done"
    /\ LET decoded == from_config_register(scratchpad[5])
       IN  IF decoded = None
           THEN result' = Err("CrcMismatch")
           ELSE LET resolution == decoded[1]
                    raw_temp == u16_from_le_bytes(scratchpad[1], scratchpad[2])
                IN  result' = Ok(<<>>,
                        <<SensorData(decode_temperature(raw_temp, resolution),
                                     resolution,
                                     i8_from_le_bytes(scratchpad[3]),
                                     i8_from_le_bytes(scratchpad[4]))>>)
    /\ UNCHANGED <<READ_SLOT_DURATION_MICROS, handle, op, log, scratchpad, polls>>

\* read_data after read_scratchpad has returned Ok(scratchpad)
read_data_decode ==
    /\ op.fn = "read_data"
    /\ pc = "decode"
    /\ pc' = "done"
    /\ LET decoded == from_config_register(scratchpad[5])
       IN  IF decoded = None
           THEN result' = Err("CrcMismatch")
           ELSE LET resolution == decoded[1]
                    raw_temp == u16_from_le_bytes(scratchpad[1], scratchpad[2])
                IN  result' = Ok(<<>>,
                        <<SensorData(decode_temperature(raw_temp, resolution),
                                     resolution,
                                     i8_from_le_bytes(scratchpad[4]),
                                     i8_from_le_bytes(scratchpad[3]))>>)
    /\ UNCHANGED <<READ_SLOT_DURATION_MICROS, handle, op, log, scratchpad, polls>>

-----------------------------------------------------------------------------
(* recall_from_eeprom and save_to_eeprom (address: Option<&Address>).       *)

max_retries_no_extra == 10000 \div READ_SLOT_DURATION_MICROS

max_retries_ceil ==
    ((10000 + READ_SLOT_DURATION_MICROS - 1) \div READ_SLOT_DURATION_MICROS) + 1

\* (10000 / one_wire_bus::READ_SLOT_DURATION_MICROS) + 1, integer division
max_retries == (10000 \div READ_SLOT_DURATION_MICROS) + 1

recall_from_eeprom_poll_inverted ==
    /\ op.fn = "recall_from_eeprom"
    /\ pc = "sent"
    /\ polls < max_retries
    /\ polls' = polls + 1
    /\ \/ \E bit \in {0, 1} :
            /\ log' = Append(log, Entry("read_bit", <<bit>>, "ok"))
            /\ IF bit = 0
               THEN pc' = "done" /\ result' = Ok(<<>>, <<>>)
               ELSE pc' = "sent" /\ result' = result
       \/ \E e \in BusErrors :
            /\ log' = Append(log, Entry("read_bit", <<>>, e))
            /\ pc' = "done"
            /\ result' = Err(e)
    /\ UNCHANGED <<READ_SLOT_DURATION_MICROS, handle, op, scratchpad>>

\* one iteration of `for _ in 0..max_retries`: read_bit()?, return Ok on true
recall_from_eeprom_poll ==
    /\ op.fn = "recall_from_eeprom"
    /\ pc = "sent"
    /\ polls < max_retries
    /\ polls' = polls + 1
    /\ \/ \E bit \in {0, 1} :
            /\ log' = Append(log, Entry("read_bit", <<bit>>, "ok"))
            /\ IF bit = 1
               THEN pc' = "done" /\ result' = Ok(<<>>, <<>>)
               ELSE pc' = "sent" /\ result' = result
       \/ \E e \in BusErrors :
            /\ log' = Append(log, Entry("read_bit", <<>>, e))
            /\ pc' = "done"
            /\ result' = Err(e)
    /\ UNCHANGED <<READ_SLOT_DURATION_MICROS, handle, op, scratchpad>>

\* the loop is exhausted: Err(OneWireError::Timeout)
recall_from_eeprom_timeout ==
    /\ op.fn = "recall_from_eeprom"
    /\ pc = "sent"
    /\ polls >= max_retries
    /\ pc' = "done"
    /\ result' = Err("Timeout")
    /\ UNCHANGED <<READ_SLOT_DURATION_MICROS, handle, op, log, scratchpad, polls>>

save_to_eeprom_poll ==
    /\ op.fn = "save_to_eeprom"
    /\ pc = "sent"
    /\ \E bit \in {0, 1} :
         /\ log' = Append(log, Entry("read_bit", <<bit>>, "ok"))
         /\ IF bit = 1
            THEN pc' = "done" /\ result' = Ok(<<>>, <<>>)
            ELSE pc' = "done" /\ result' = Err("Timeout")
    /\ UNCHANGED <<READ_SLOT_DURATION_MICROS, handle, op, scratchpad, polls>>

\* Timer::after_millis(10).await; Ok(())
save_to_eeprom_delay ==
    /\ op.fn = "save_to_eeprom"
    /\ pc = "sent"
    /\ log' = Append(log, Entry("delay", <<10>>, "ok"))
    /\ pc' = "done"
    /\ result' = Ok(<<>>, <<>>)
    /\ UNCHANGED <<READ_SLOT_DURATION_MICROS, handle, op, scratchpad, polls>>

-----------------------------------------------------------------------------
(* The caller takes the result and is free to make the next call.           *)

Return ==
    /\ pc = "done"
    /\ pc' = "idle"
    /\ op' = NoCall
    /\ log' = <<>>
    /\ result' = NoResult
    /\ scratchpad' = ZeroScratchpad
    /\ polls' = 0
    /\ UNCHANGED <<READ_SLOT_DURATION_MICROS, handle>>

Next ==
    \/ Alone /\ (\E address \in Addresses : new(address))
    \/ Alone /\ Ds18b20_start_temp_measurement
    \/ Alone /\ Ds18b20_read_data
    \/ Alone /\ (\E low \in AlarmTemps, high \in AlarmTemps, resolution \in Resolutions : Ds18b20_set_config(low, high, resolution))
    \/ Alone /\ Ds18b20_save_to_eeprom
    \/ Alone /\ Ds18b20_recall_from_eeprom
    \/ Alone /\ start_simultaneous_temp_measurement
    \/ Alone /\ simultaneous_recall_from_eeprom
    \/ Alone /\ simultaneous_save_to_eeprom
    \/ Alone /\ (\E address \in Addresses : read_scratchpad(address))
    \/ Alone /\ (\E r \in Resolutions : delay_for_measurement_time(r))
    \/ Alone /\ send_command_reset
    \/ Alone /\ send_command_address
    \/ Alone /\ send_command_write
    \/ Alone /\ start_temp_measurement_return
    \/ Alone /\ set_config_write_high
    \/ Alone /\ set_config_write_low
    \/ Alone /\ set_config_write_resolution
    \/ Alone /\ start_simultaneous_reset
    \/ Alone /\ start_simultaneous_skip_address
    \/ Alone /\ start_simultaneous_write_byte
    \/ Alone /\ read_scratchpad_reset
    \/ Alone /\ read_scratchpad_match_address
    \/ Alone /\ read_scratchpad_write_byte
    \/ Alone /\ read_scratchpad_read_bytes
    \/ Alone /\ read_scratchpad_check_crc8
    \/ Alone /\ read_data_decode
    \/ Alone /\ recall_from_eeprom_poll
    \/ Alone /\ recall_from_eeprom_timeout
    \/ Alone /\ save_to_eeprom_delay
    \/ Alone /\ Return

Spec == Init /\ [][Next]_vars

-----------------------------------------------------------------------------
(* The driver against one sensor.                                           *)

\* alarm thresholds handed to set_config: a negative one, and one whose
\* byte is that of the copy-scratchpad command
DeviceAlarmTemps == {-58, 72}

DeviceResolutions == {"Bits9", "Bits12"}

DeviceInit ==
    /\ READ_SLOT_DURATION_MICROS = 5000
    /\ handle = <<>>
    /\ op = NoCall
    /\ pc = "idle"
    /\ log = <<>>
    /\ result = NoResult
    /\ scratchpad = ZeroScratchpad
    /\ polls = 0
    /\ device = PoweredOn
    /\ borrow = NoBorrow
    /\ wire = <<>>
    /\ sched = NoSched

\* the sensor finishes the conversion it was told to start
conversion_complete ==
    /\ device[3]
    /\ device' = [device EXCEPT ![3] = FALSE]
    /\ UNCHANGED <<READ_SLOT_DURATION_MICROS, handle, op, pc, log, result,
                   scratchpad, polls, borrow, wire, sched>>

DeviceNext ==
    \/ (\E address \in Addresses : new(address)) /\ Sensor
    \/ Ds18b20_start_temp_measurement /\ Sensor
    \/ Ds18b20_read_data /\ Sensor
    \/ (\E low \in DeviceAlarmTemps, high \in DeviceAlarmTemps, resolution \in DeviceResolutions : Ds18b20_set_config(low, high, resolution)) /\ Sensor
    \/ Ds18b20_save_to_eeprom /\ Sensor
    \/ Ds18b20_recall_from_eeprom /\ Sensor
    \/ start_simultaneous_temp_measurement /\ Sensor
    \/ simultaneous_recall_from_eeprom /\ Sensor
    \/ simultaneous_save_to_eeprom /\ Sensor
    \/ (\E address \in Addresses : read_scratchpad(address)) /\ Sensor
    \/ send_command_reset /\ Sensor
    \/ send_command_address /\ Sensor
    \/ send_command_write /\ Sensor
    \/ start_temp_measurement_return /\ Sensor
    \/ set_config_write_high /\ Sensor
    \/ set_config_write_low /\ Sensor
    \/ set_config_write_resolution /\ Sensor
    \/ start_simultaneous_reset /\ Sensor
    \/ start_simultaneous_skip_address /\ Sensor
    \/ start_simultaneous_write_byte /\ Sensor
    \/ read_scratchpad_reset /\ Sensor
    \/ read_scratchpad_match_address /\ Sensor
    \/ read_scratchpad_write_byte /\ Sensor
    \/ read_scratchpad_read_bytes /\ Sensor
    \/ read_scratchpad_check_crc8 /\ Sensor
    \/ read_data_decode /\ Sensor
    \/ recall_from_eeprom_poll /\ Sensor
    \/ recall_from_eeprom_timeout /\ Sensor
    \/ save_to_eeprom_delay /\ Sensor
    \/ Return /\ Sensor
    \/ conversion_complete

DeviceSpec == DeviceInit /\ [][DeviceNext]_vars

-----------------------------------------------------------------------------
(* Two tasks on one executor calling the driver on the same bus.  Every     *)
(* function of the driver takes `onewire: &mut OneWire<T>`: the call (its   *)
(* future) has the only reference to the bus from the moment it is made to  *)
(* the moment it returns.  A task is suspended at any await of its call and *)
(* the other task runs; the variables op .. polls are those of the task     *)
(* that runs, sched[2] those of the task that waits.                        *)

Tasks == {1, 2}

\* the task that is not running
Waiting == 3 - sched[1]

TasksInit ==
    /\ READ_SLOT_DURATION_MICROS = 5000
    /\ handle = <<>>
    /\ op = NoCall
    /\ pc = "idle"
    /\ log = <<>>
    /\ result = NoResult
    /\ scratchpad = ZeroScratchpad
    /\ polls = 0
    /\ device = PoweredOn
    /\ borrow = NoBorrow
    /\ wire = <<>>
    /\ sched = NoSched

\* a call that takes no bus, or a result taken by the caller
NoBus == UNCHANGED <<device, borrow, wire, sched>>

Acquire_aliased ==
    /\ borrow' = <<sched[1], TRUE>>
    /\ wire' = IF borrow[2] THEN wire ELSE <<>>
    /\ UNCHANGED <<device, sched>>

\* passing `&mut OneWire` to a driver function: possible only when no other
\* call has it (the borrow checker, or the mutex the tasks keep the bus in)
Acquire ==
    /\ ~borrow[2]
    /\ borrow' = <<sched[1], TRUE>>
    /\ wire' = <<>>
    /\ UNCHANGED <<device, sched>>

\* a step of the call that has the bus: its primitive, if any, goes on the
\* wire; when the function returns, its borrow ends
OnBus ==
    /\ SensorReacts
    /\ wire' = IF Len(log') = Len(log) + 1 /\ log'[Len(log')].prim # "delay"
               THEN Append(wire, sched[1])
               ELSE wire
    /\ borrow' = IF pc' = "done" THEN NoBorrow ELSE borrow
    /\ sched' = sched

\* the running task is suspended (at an await of its call, or between
\* calls) and the executor runs the other one
switch ==
    /\ sched' = <<Waiting, <<op, pc, log, result, scratchpad, polls>>>>
    /\ op' = sched[2][1]
    /\ pc' = sched[2][2]
    /\ log' = sched[2][3]
    /\ result' = sched[2][4]
    /\ scratchpad' = sched[2][5]
    /\ polls' = sched[2][6]
    /\ UNCHANGED <<READ_SLOT_DURATION_MICROS, handle, device, borrow, wire>>

TasksNext ==
    \/ new(DeviceAddress) /\ NoBus
    \/ Ds18b20_start_temp_measurement /\ Acquire
    \/ Ds18b20_read_data /\ Acquire
    \/ Ds18b20_save_to_eeprom /\ Acquire
    \/ simultaneous_save_to_eeprom /\ Acquire
    \/ read_scratchpad(DeviceAddress) /\ Acquire
    \/ send_command_reset /\ OnBus
    \/ send_command_address /\ OnBus
    \/ send_command_write /\ OnBus
    \/ start_temp_measurement_return /\ OnBus
    \/ read_scratchpad_reset /\ OnBus
    \/ read_scratchpad_match_address /\ OnBus
    \/ read_scratchpad_write_byte /\ OnBus
    \/ read_scratchpad_read_bytes /\ OnBus
    \/ read_scratchpad_check_crc8 /\ OnBus
    \/ read_data_decode /\ OnBus
    \/ save_to_eeprom_delay /\ OnBus
    \/ Return /\ NoBus
    \/ switch

TasksSpec == TasksInit /\ [][TasksNext]_vars

-----------------------------------------------------------------------------
(* Vocabulary of the properties.                                            *)

\* positions of the log holding primitive prim
Positions(prim) == {j \in 1 .. Len(log) : log[j].prim = prim}

\* every primitive performed so far succeeded
NoFault == \A j \in 1 .. Len(log) : log[j].res = "ok"

\* a scratchpad read-out has completed: the bus delivered 9 bytes
ScratchpadRead ==
    /\ op.fn \in {"read_scratchpad", "read_data"}
    /\ pc \in {"check_crc8", "decode", "done"}
    /\ Len(log) = 4
    /\ log[4].prim = "read_bytes"
    /\ log[4].res = "ok"

\* the driver has acted on the 9 bytes
ScratchpadJudged == ScratchpadRead /\ pc \in {"decode", "done"}

\* byte 8 of the delivered scratchpad is the CRC-8 of bytes 0-7
TrailingCrcMatches == crc8(SubSeq(log[4].arg, 1, 8)) = log[4].arg[9]

KnownConfigBytes == {31, 63, 95, 127}

\* the divisor the sensor's data sheet gives for a config byte
DivisorOf(config) ==
    CASE config = 31  -> 2
      [] config = 63  -> 4
      [] config = 95  -> 8
      [] config = 127 -> 16

\* the raw 16-bit temperature of the delivered scratchpad
RawOf(bytes) == bytes[1] + 256 * bytes[2]

\* read_data has returned for a CRC-valid scratchpad with a known config byte
DecodableReturned ==
    /\ ScratchpadRead
    /\ op.fn = "read_data"
    /\ pc = "done"
    /\ TrailingCrcMatches
    /\ log[4].arg[5] \in KnownConfigBytes

-----------------------------------------------------------------------------
(* C1: a scratchpad whose trailing CRC-8 does not match bytes 0-7 makes     *)
(* read_data and read_scratchpad fail with CrcMismatch, returning no        *)
(* SensorData and no bytes, whatever the other bytes are.                   *)
C1_CrcMismatchRejected ==
    (ScratchpadJudged /\ ~TrailingCrcMatches)
        => /\ pc = "done"
           /\ result.tag = "Err"
           /\ result.err = "CrcMismatch"
           /\ result.data = <<>>
           /\ result.bytes = <<>>

\* read_data has rejected a scratchpad that is valid but for its CRC byte
C1_Witness ==
    /\ ScratchpadJudged
    /\ op.fn = "read_data"
    /\ ~TrailingCrcMatches
    /\ log[4].arg[5] = 127
    /\ RawOf(log[4].arg) = 1360
    /\ result.err = "CrcMismatch"

(* C2: for a CRC-valid scratchpad with a config byte in {0x1F, 0x3F, 0x5F,  *)
(* 0x7F}, read_data succeeds with the resolution that encodes to that byte  *)
(* and with temperature = (unsigned 16-bit little-endian raw value) / 2, 4, *)
(* 8 or 16 for 9, 10, 11 or 12 bits.  Temperatures are in sixteenths.       *)
C2_DecodedTemperature ==
    DecodableReturned
        => /\ result.tag = "Ok"
           /\ Len(result.data) = 1
           /\ to_config_register(result.data[1].resolution) = log[4].arg[5]
           /\ result.data[1].temperature * DivisorOf(log[4].arg[5])
                = 16 * RawOf(log[4].arg)

\* the power-on scratchpad: raw 0x0550 at 12 bits reads 85.0 degrees
C2_Witness ==
    /\ DecodableReturned
    /\ log[4].arg[1] = 80
    /\ log[4].arg[2] = 5
    /\ log[4].arg[5] = 127
    /\ result.tag = "Ok"
    /\ result.data[1].temperature = 85 * 16
    /\ result.data[1].resolution = "Bits12"
    /\ result.data[1].alarm_temp_high = 75
    /\ result.data[1].alarm_temp_low = -58

(* C3: for a CRC-valid scratchpad whose raw temperature has bit 15 set,     *)
(* read_data returns the negative value (raw - 65536) / divisor.            *)
C3_SignedTemperature ==
    (DecodableReturned /\ RawOf(log[4].arg) >= 32768)
        => /\ result.tag = "Ok"
           /\ Len(result.data) = 1
           /\ result.data[1].temperature * DivisorOf(log[4].arg[5])
                = 16 * (RawOf(log[4].arg) - 65536)

(* C4: for a CRC-valid scratchpad whose config byte is none of 0x1F, 0x3F,  *)
(* 0x5F, 0x7F, read_data fails with CrcMismatch and returns no SensorData;  *)
(* none of the 252 other byte values decodes to a resolution.               *)
C4_UnknownConfigRejected ==
    /\ (/\ ScratchpadRead
        /\ op.fn = "read_data"
        /\ pc = "done"
        /\ TrailingCrcMatches
        /\ log[4].arg[5] \notin KnownConfigBytes)
          => /\ result.tag = "Err"
             /\ result.err = "CrcMismatch"
             /\ result.data = <<>>
    /\ (pc = "decode")
          => \A config \in (0 .. 255) \ KnownConfigBytes :
                from_config_register(config) = None

\* read_data has rejected a CRC-valid scratchpad with config byte 0x60
C4_Witness ==
    /\ ScratchpadRead
    /\ op.fn = "read_data"
    /\ pc = "done"
    /\ TrailingCrcMatches
    /\ log[4].arg[5] = 96
    /\ result.err = "CrcMismatch"

ByteOf(x) == IF x < 0 THEN x + 256 ELSE x

\* the config byte of a resolution, by the sensor's data sheet
ConfigByteOf(r) ==
    CASE r = "Bits9"  -> 31
      [] r = "Bits10" -> 63
      [] r = "Bits11" -> 95
      [] r = "Bits12" -> 127

(* C6: on a bus without faults set_config sends the write-scratchpad        *)
(* command addressed to this device and then writes exactly three bytes:    *)
(* high alarm, low alarm, resolution config byte; it performs no other bus  *)
(* operation, and never more than these six.                                *)
C6_SetConfigSequence ==
    (op.fn = "set_config")
        => /\ Len(log) <= 6
           /\ (pc = "done" /\ NoFault)
                => /\ result = Ok(<<>>, <<>>)
                   /\ log = << Entry("reset", <<>>, "ok"),
                               Entry("match_address", handle[1], "ok"),
                               Entry("write_byte", <<WRITE_SCRATCHPAD>>, "ok"),
                               Entry("write_byte", <<ByteOf(op.high)>>, "ok"),
                               Entry("write_byte", <<ByteOf(op.low)>>, "ok"),
                               Entry("write_byte", <<ConfigByteOf(op.bits)>>, "ok") >>

\* set_config(low = -58, high = 75, 11 bits) has returned on a sound bus
C6_Witness ==
    /\ op.fn = "set_config"
    /\ pc = "done"
    /\ NoFault
    /\ op.low = -58
    /\ op.high = 75
    /\ op.bits = "Bits11"
    /\ Len(log) = 6
    /\ log[4].arg = <<75>>
    /\ log[5].arg = <<198>>
    /\ log[6].arg = <<95>>

\* the recall command has been sent without a fault
RecallSent ==
    /\ op.fn = "recall_from_eeprom"
    /\ Len(log) >= 3
    /\ \A j \in 1 .. 3 : log[j].res = "ok"

\* the number of polls the loop allows, by the expression of the source
PollBound == (10000 \div READ_SLOT_DURATION_MICROS) + 1

(* C7: if the recall command is sent and read_bit returns false on every    *)
(* poll, recall_from_eeprom (addressed or broadcast) returns Timeout after  *)
(* exactly the computed number of polls; it never polls more than that.     *)
C7_RecallTimesOut ==
    (op.fn = "recall_from_eeprom")
        => /\ Cardinality(Positions("read_bit")) <= PollBound
           /\ (/\ RecallSent
               /\ pc = "done"
               /\ \A j \in Positions("read_bit") :
                     log[j].res = "ok" /\ log[j].arg = <<0>>)
                => /\ result = Err("Timeout")
                   /\ Cardinality(Positions("read_bit")) = PollBound
                   /\ Len(log) = 3 + PollBound

\* a broadcast recall has timed out after 143 polls of a 70 us slot
C7_Witness ==
    /\ op.name = "simultaneous_recall_from_eeprom"
    /\ pc = "done"
    /\ READ_SLOT_DURATION_MICROS = 70
    /\ result = Err("Timeout")
    /\ Cardinality(Positions("read_bit")) = 143
    /\ \A j \in Positions("read_bit") : log[j].arg = <<0>>

(* C8: if read_bit first returns true on the k-th poll (1 <= k <= bound),   *)
(* recall_from_eeprom returns success after exactly k read_bit calls and    *)
(* performs no further bus operation; it returns success only when a true   *)
(* bit was observed.                                                        *)
C8_RecallReturnsOnFirstTrue ==
    (op.fn = "recall_from_eeprom")
        => /\ \A j \in Positions("read_bit") :
                (log[j].res = "ok" /\ log[j].arg = <<1>>)
                    => /\ j = Len(log)
                       /\ pc = "done"
                       /\ result = Ok(<<>>, <<>>)
                       /\ Cardinality(Positions("read_bit")) = j - 3
                       /\ j - 3 <= PollBound
           /\ (pc = "done" /\ result.tag = "Ok")
                => /\ Len(log) >= 4
                   /\ log[Len(log)] = Entry("read_bit", <<1>>, "ok")
                   /\ \A j \in 4 .. (Len(log) - 1) :
                         log[j] = Entry("read_bit", <<0>>, "ok")

\* the third poll read true: success after exactly 3 polls
C8_Witness ==
    /\ op.fn = "recall_from_eeprom"
    /\ pc = "done"
    /\ result.tag = "Ok"
    /\ Len(log) = 6
    /\ Cardinality(Positions("read_bit")) = 3
    /\ log[4].arg = <<0>>
    /\ log[5].arg = <<0>>
    /\ log[6].arg = <<1>>

(* C9: when a bus primitive reports an error, the operation returns that    *)
(* error at once: the failed primitive is the last entry of the log (no     *)
(* further bus operation, no delay), the result is that error (not Timeout  *)
(* or CrcMismatch), and no operation ever issues a second reset.            *)
C9_ErrorsPropagateAtOnce ==
    /\ \A j \in 1 .. Len(log) :
          (log[j].res # "ok")
              => /\ j = Len(log)
                 /\ pc = "done"
                 /\ result = Err(log[j].res)
    /\ Cardinality(Positions("reset")) <= 1

\* a read_bit failure during the second recall poll came back as that error
C9_Witness ==
    /\ op.fn = "recall_from_eeprom"
    /\ pc = "done"
    /\ Len(log) = 5
    /\ log[5].prim = "read_bit"
    /\ log[5].res = "PinError"
    /\ result = Err("PinError")

(* C10: save_to_eeprom (addressed or broadcast) sends the copy-scratchpad   *)
(* command, waits a fixed 10 ms and returns success; it performs no bus     *)
(* read, and the wait does not depend on the device.                        *)
C10_SaveWaitsBlindly ==
    (op.fn = "save_to_eeprom")
        => /\ Positions("read_bit") = {}
           /\ Positions("read_bytes") = {}
           /\ \A j \in Positions("delay") : log[j].arg = <<10>>
           /\ (pc = "done" /\ NoFault)
                => /\ result = Ok(<<>>, <<>>)
                   /\ log = << Entry("reset", <<>>, "ok"),
                               IF op.address = None
                                   THEN Entry("skip_address", <<>>, "ok")
                                   ELSE Entry("match_address", op.address[1], "ok"),
                               Entry("write_byte", <<COPY_SCRATCHPAD>>, "ok"),
                               Entry("delay", <<10>>, "ok") >>
           /\ (pc = "done" /\ result.tag = "Ok") => NoFault

\* a broadcast save has returned after its 10 ms wait
C10_Witness ==
    /\ op.name = "simultaneous_save_to_eeprom"
    /\ pc = "done"
    /\ result.tag = "Ok"
    /\ Len(log) = 4
    /\ log[2].prim = "skip_address"
    /\ log[4] = Entry("delay", <<10>>, "ok")

-----------------------------------------------------------------------------
(* Properties of the driver against an arbitrary bus, continued.            *)

BroadcastCall ==
    op.name \in {"start_simultaneous_temp_measurement",
                 "simultaneous_recall_from_eeprom",
                 "simultaneous_save_to_eeprom"}

HandleCall ==
    op.name \in {"Ds18b20::start_temp_measurement", "Ds18b20::read_data",
                 "Ds18b20::set_config", "Ds18b20::save_to_eeprom",
                 "Ds18b20::recall_from_eeprom"}

(* C12: the broadcast operations address the bus with skip-address and      *)
(* never match-address; the handle's operations always match exactly the    *)
(* address the handle was constructed with; and                             *)
(* start_simultaneous_temp_measurement issues reset, skip-address,          *)
(* convert-temperature in that order.                                       *)
C12_Addressing ==
    /\ BroadcastCall
         => /\ Positions("match_address") = {}
            /\ Len(log) >= 2 => log[2].prim = "skip_address"
    /\ HandleCall
         => /\ Positions("skip_address") = {}
            /\ Len(log) >= 2 => log[2].prim = "match_address"
            /\ \A j \in Positions("match_address") : log[j].arg = handle[1]
    /\ (op.name = "start_simultaneous_temp_measurement" /\ pc = "done" /\ NoFault)
         => log = << Entry("reset", <<>>, "ok"),
                     Entry("skip_address", <<>>, "ok"),
                     Entry("write_byte", <<CONVERT_TEMP>>, "ok") >>

\* the handle of the second sensor has saved to its own EEPROM only
C12_Witness ==
    /\ op.name = "Ds18b20::save_to_eeprom"
    /\ pc = "done"
    /\ result.tag = "Ok"
    /\ handle = << <<40, 255, 255, 255, 255, 255, 255, 16>> >>
    /\ log[2] = Entry("match_address", <<40, 255, 255, 255, 255, 255, 255, 16>>, "ok")

(* C14: for each of the four resolutions r,                                 *)
(* from_config_register(to_config_register(r)) = Some(r), and               *)
(* to_config_register gives 0x1F, 0x3F, 0x5F, 0x7F for 9, 10, 11, 12 bits.  *)
(* Stated for every resolution, and for the byte set_config puts on the bus. *)
C14_ResolutionRoundTrip ==
    (op.fn = "set_config" /\ Len(log) = 6 /\ log[6].res = "ok")
        => /\ from_config_register(log[6].arg[1]) = Some(op.bits)
           /\ \A r \in Resolutions :
                 /\ from_config_register(to_config_register(r)) = Some(r)
                 /\ to_config_register(r) = ConfigByteOf(r)

\* set_config has written the config byte of 10 bits, 0x3F
C14_Witness ==
    /\ op.fn = "set_config"
    /\ Len(log) = 6
    /\ log[6].res = "ok"
    /\ op.bits = "Bits10"
    /\ log[6].arg = <<63>>

\* the conversion time of a resolution, by the sensor's data sheet
ConversionMillis(r) ==
    CASE r = "Bits9"  -> 94
      [] r = "Bits10" -> 188
      [] r = "Bits11" -> 375
      [] r = "Bits12" -> 750

(* C15: max_measurement_time_millis is 94, 188, 375, 750 ms for 9, 10, 11,  *)
(* 12 bits, and delay_for_measurement_time suspends for exactly that time   *)
(* for the resolution it is called on (one timer wait, no bus operation).   *)
C15_MeasurementDelay ==
    (op.fn = "delay_for_measurement_time" /\ pc = "done")
        => /\ log = <<Entry("delay", <<ConversionMillis(op.bits)>>, "ok")>>
           /\ result = Ok(<<>>, <<>>)
           /\ \A r \in Resolutions :
                 max_measurement_time_millis(r) = ConversionMillis(r)

\* the wait for an 11-bit conversion: 375 ms
C15_Witness ==
    /\ op.fn = "delay_for_measurement_time"
    /\ pc = "done"
    /\ op.bits = "Bits11"
    /\ log = <<Entry("delay", <<375>>, "ok")>>

\* a recall has run out of polls
RecallTimedOut ==
    /\ op.fn = "recall_from_eeprom"
    /\ pc = "done"
    /\ result = Err("Timeout")

CeilDiv(a, b) == (a + b - 1) \div b

(* C16 as claimed: the number of polls allowed before Timeout is            *)
(* ceil(10000 / READ_SLOT_DURATION_MICROS) + 1 for every slot duration      *)
(* (144 for a 70 us slot).                                                  *)
C16_CeilPlusOne ==
    RecallTimedOut
        => Cardinality(Positions("read_bit"))
             = CeilDiv(10000, READ_SLOT_DURATION_MICROS) + 1

(* C16 as amended: the number of polls allowed before Timeout is            *)
(* floor(10000 / READ_SLOT_DURATION_MICROS) + 1: one more than the ceiling  *)
(* only when the slot divides 10000, and equal to the ceiling when it does  *)
(* not (143 for a 70 us slot).                                              *)
C16_FloorPlusOne ==
    RecallTimedOut
        => LET n == Cardinality(Positions("read_bit"))
               slot == READ_SLOT_DURATION_MICROS
           IN  /\ n * slot > 10000
               /\ (n - 1) * slot <= 10000
               /\ (10000 % slot # 0) => n = CeilDiv(10000, slot)
               /\ (10000 % slot = 0) => n = CeilDiv(10000, slot) + 1

\* an addressed recall timed out after 143 polls of a 70 us slot
C16_Witness ==
    /\ RecallTimedOut
    /\ op.name = "Ds18b20::recall_from_eeprom"
    /\ READ_SLOT_DURATION_MICROS = 70
    /\ Cardinality(Positions("read_bit")) = 143
    /\ CeilDiv(10000, 70) + 1 = 144

\* read_data has returned for a CRC-valid scratchpad, whatever its config byte
ValidCrcReturned ==
    /\ ScratchpadRead
    /\ op.fn = "read_data"
    /\ pc = "done"
    /\ TrailingCrcMatches

(* C17 as claimed: decoding a config byte depends only on its upper 3 bits: *)
(* a byte decodes as the byte with the same upper 3 bits and the lower 5    *)
(* bits set does.                                                           *)
C17_LowBitsIgnored ==
    ValidCrcReturned
        => LET partner == 32 * (log[4].arg[5] \div 32) + 31
           IN  from_config_register(partner) # None
                 => /\ result.tag = "Ok"
                    /\ Len(result.data) = 1
                    /\ Some(result.data[1].resolution) = from_config_register(partner)

(* C17 as amended: decoding a config byte depends on all 8 bits: a byte     *)
(* decodes only if bit 7 is clear and the lower 5 bits are all set (0x1F,   *)
(* 0x3F, 0x5F, 0x7F), bits 6-5 then selecting 9..12 bits; a byte differing  *)
(* from these in its lower 5 bits decodes to no resolution and read_data    *)
(* fails with CrcMismatch.                                                  *)
C17_AllBitsDecide ==
    /\ ValidCrcReturned
         => LET config == log[4].arg[5]
            IN  IF config < 128 /\ config % 32 = 31
                THEN /\ result.tag = "Ok"
                     /\ result.data[1].resolution
                          = <<"Bits9", "Bits10", "Bits11", "Bits12">>[(config \div 32) + 1]
                ELSE result = Err("CrcMismatch")
    /\ (pc = "decode")
         => \A config \in 0 .. 255 :
               (from_config_register(config) # None)
                   <=> (config < 128 /\ config % 32 = 31)

\* 0x60 has the upper 3 bits of 0x7F (12 bits) and is refused
C17_Witness ==
    /\ ValidCrcReturned
    /\ log[4].arg[5] = 96
    /\ from_config_register(127) = Some("Bits12")
    /\ result = Err("CrcMismatch")

(* C19: a scratchpad read issues, in this order, reset, match-address for   *)
(* the given address, the read-scratchpad command and one read of exactly   *)
(* 9 bytes; the CRC-8 check runs only after the 9 bytes are read, and       *)
(* resolution, temperature and alarms are decoded (and bytes returned) only *)
(* after that check has passed.                                             *)
C19_ReadOrder ==
    (op.fn \in {"read_scratchpad", "read_data"})
        => /\ Len(log) <= 4
           /\ \A j \in 1 .. Len(log) :
                 log[j].prim = <<"reset", "match_address", "write_byte", "read_bytes">>[j]
           /\ Len(log) >= 2 => log[2].arg = op.address[1]
           /\ Len(log) >= 3 => log[3].arg = <<READ_SCRATCHPAD>>
           /\ (Len(log) = 4 /\ log[4].res = "ok")
                 => (Len(log[4].arg) = 9 /\ scratchpad = log[4].arg)
           /\ pc \in {"check_crc8", "decode"} => (Len(log) = 4 /\ log[4].res = "ok")
           /\ pc = "decode" => crc8(scratchpad) = 0
           /\ (result.data # <<>> \/ result.bytes # <<>>)
                 => (Len(log) = 4 /\ log[4].res = "ok" /\ crc8(log[4].arg) = 0)

\* read_scratchpad has returned the 9 bytes of a device of another family
C19_Witness ==
    /\ op.fn = "read_scratchpad"
    /\ pc = "done"
    /\ op.address[1][1] = 16
    /\ result.tag = "Ok"
    /\ Len(result.bytes) = 9
    /\ result.bytes = log[4].arg
    /\ log[2] = Entry("match_address", op.address[1], "ok")

-----------------------------------------------------------------------------
(* Properties of the driver against one sensor (DeviceSpec).                *)

\* the handle is that of the sensor on the bus
OwnSensor == handle = <<DeviceAddress>>

(* C11: start_temp_measurement issues a reset, addresses the handle's own   *)
(* device, writes the convert-temperature command and returns without any   *)
(* delay or bus read; a read_data can be entered as soon as it has          *)
(* returned, whatever the sensor is doing, and read_data itself goes        *)
(* straight to the bus: it neither waits nor polls.                         *)
C11_StartReturnsAtOnce ==
    /\ (op.name = "Ds18b20::start_temp_measurement")
         => /\ Positions("delay") = {}
            /\ Positions("read_bit") = {}
            /\ Positions("read_bytes") = {}
            /\ (pc = "done" /\ NoFault)
                 => /\ log = << Entry("reset", <<>>, "ok"),
                                Entry("match_address", handle[1], "ok"),
                                Entry("write_byte", <<CONVERT_TEMP>>, "ok") >>
                    /\ result = Ok(<<>>, <<>>)
    /\ (op.name = "Ds18b20::read_data")
         => /\ Positions("delay") = {}
            /\ Positions("read_bit") = {}
            /\ Len(log) >= 1 => log[1].prim = "reset"
    /\ (pc = "idle" /\ handle # <<>>) => ENABLED Ds18b20_read_data

\* read_data has returned a reading while the conversion is still running
C11_Witness ==
    /\ op.name = "Ds18b20::read_data"
    /\ pc = "done"
    /\ result.tag = "Ok"
    /\ Len(result.data) = 1
    /\ OwnSensor
    /\ device[3]

(* C18: set_config changes only the volatile scratchpad: the one command    *)
(* it issues is write-scratchpad, never copy-scratchpad, and the sensor's   *)
(* EEPROM changes only on the step of a save_to_eeprom (addressed or        *)
(* broadcast) that writes the copy-scratchpad command.                      *)
C18_SetConfigIsVolatile ==
    /\ [](op.fn = "set_config"
            => (Len(log) >= 3 => log[3].arg = <<WRITE_SCRATCHPAD>>))
    /\ [][ (device'[2] # device[2])
             => /\ op.fn = "save_to_eeprom"
                /\ op' = op
                /\ log' = Append(log, Entry("write_byte", <<COPY_SCRATCHPAD>>, "ok")) ]_vars
    /\ [][ (op'.fn = "set_config") => (device'[2] = device[2]) ]_vars

\* set_config has written 72 (the byte of copy-scratchpad) as TH, and the
\* EEPROM still holds the factory settings
C18_Witness ==
    /\ op.fn = "set_config"
    /\ pc = "done"
    /\ result.tag = "Ok"
    /\ OwnSensor
    /\ op.high = 72
    /\ log[4].arg = <<COPY_SCRATCHPAD>>
    /\ device[1] = <<72, ByteOf(op.low), ConfigByteOf(op.bits)>>
    /\ device[2] = FactorySettings

(* C20: against a sensor that stores the three bytes written after          *)
(* write-scratchpad in scratchpad bytes 2, 3 and 4, a set_config(low, high, *)
(* resolution) followed by a CRC-valid read_data returns alarm_temp_low =   *)
(* low, alarm_temp_high = high (as signed 8-bit values) and the same        *)
(* resolution, never swapped; the byte conversion round-trips for every     *)
(* value in -128..127.                                                      *)
C20_ConfigRoundTrip ==
    /\ (op.fn = "set_config" /\ pc = "done" /\ result.tag = "Ok" /\ OwnSensor)
         => /\ device[5] = Some(<<op.low, op.high, op.bits>>)
            /\ device[1] = <<ByteOf(op.high), ByteOf(op.low), ConfigByteOf(op.bits)>>
    /\ (/\ op.name = "Ds18b20::read_data"
        /\ pc = "done"
        /\ OwnSensor
        /\ ScratchpadRead
        /\ TrailingCrcMatches
        /\ device[5] # None)
         => /\ result.tag = "Ok"
            /\ Len(result.data) = 1
            /\ result.data[1].alarm_temp_low = device[5][1][1]
            /\ result.data[1].alarm_temp_high = device[5][1][2]
            /\ result.data[1].resolution = device[5][1][3]
    /\ (pc = "decode")
         => \A x \in -128 .. 127 :
               /\ i8_to_byte(x) \in 0 .. 255
               /\ i8_from_le_bytes(i8_to_byte(x)) = x

\* set_config(-58, 72, 9 bits) reads back as low -58, high 72, 9 bits
C20_Witness ==
    /\ op.name = "Ds18b20::read_data"
    /\ pc = "done"
    /\ OwnSensor
    /\ device[5] = Some(<<-58, 72, "Bits9">>)
    /\ result.tag = "Ok"
    /\ result.data[1].alarm_temp_low = -58
    /\ result.data[1].alarm_temp_high = 72
    /\ result.data[1].resolution = "Bits9"
    /\ log[4].arg[3] = 72
    /\ log[4].arg[4] = 198

-----------------------------------------------------------------------------
(* Properties of two tasks on one bus (TasksSpec).                          *)

\* the running task, or the waiting one, is inside a call that has not returned
RunningInCall == pc \notin {"idle", "done"}
WaitingInCall == sched[2][2] \notin {"idle", "done"}

(* C13: the bus operations of one driver operation are never interleaved    *)
(* with those of another: all primitives the bus has seen since it was      *)
(* borrowed are those of one task; a call has the bus from its first        *)
(* operation to its return, also while its task is suspended (before the    *)
(* 10 ms delay, between the awaited steps); and while it has it the other   *)
(* task cannot enter a driver function.                                     *)
C13_ExclusiveBus ==
    /\ \A j \in 1 .. Len(wire) : wire[j] = wire[1]
    /\ (borrow[2] /\ wire # <<>>) => wire[1] = borrow[1]
    /\ RunningInCall => borrow = <<sched[1], TRUE>>
    /\ WaitingInCall => borrow = <<Waiting, TRUE>>
    /\ ~(RunningInCall /\ WaitingInCall)
    /\ (WaitingInCall /\ handle # <<>>)
         => /\ ~ENABLED (Ds18b20_read_data /\ Acquire)
            /\ ~ENABLED (simultaneous_save_to_eeprom /\ Acquire)
            /\ ~ENABLED (read_scratchpad(DeviceAddress) /\ Acquire)

\* task 1 is suspended in the 10 ms delay of save_to_eeprom after three
\* primitives; task 2 runs and is outside any call
C13_Witness ==
    /\ sched[1] = 2
    /\ pc = "idle"
    /\ sched[2][1].fn = "save_to_eeprom"
    /\ sched[2][2] = "sent"
    /\ borrow = <<1, TRUE>>
    /\ wire = <<1, 1, 1>>

====
